---- MODULE Spec2Model ----
(***************************************************************************)
(* Model of the budget-constrained recommendation engine of mealpalapp:    *)
(* the Menu page (fetchMenuData, generateRecommendation), the Budget page  *)
(* (handleCreateBudget, toggleBudgetStatus, fetchBudgetData,               *)
(* getActiveBudget, getBudgetProgress), the Analytics page                 *)
(* (fetchAnalyticsData, processDailySpending, processCategorySpending) and *)
(* the tables of the hosted store they work on (budgets,                   *)
(* meal_recommendations; the transactions queries are answered from the    *)
(* rows the table can hold).                                               *)
(*                                                                         *)
(* Money is counted in cents.  A quotient amount / 7 is kept as a fraction *)
(* num/den, with a flag for the cases in which the double-precision        *)
(* division yields the double just below the exact two-digit quotient; a   *)
(* sum of amounts is kept as its cents, with a mark for the cases in which *)
(* the double-precision sum is the double next to the exact one.           *)
(* Every await of a handler is one step: the store call it waits for is    *)
(* executed by the store at that step, and the code up to the next await   *)
(* runs with it.                                                           *)
(***************************************************************************)
EXTENDS Integers, Sequences, FiniteSets, TLC

(* ------------------------------ bounds --------------------------------- *)

\* Calendar days the model runs through (dates are 1..MaxDay).
MaxDay == 2

\* Rows the budgets table may hold.
MaxBudgets == 2

\* Rows a transactions query may return.
MaxTx == 2

\* Browser tabs / devices showing the Menu page.
Tabs == {"t1", "t2"}

Users == {"u1", "u2"}

\* The users who open the Menu page in the modelled tabs; the others act
\* through the Budget page only.
MenuUsers == {"u1"}

\* useAuth() yields no user for a signed-out visitor.
NoUser == "nobody"

BudgetTypes == {"daily", "weekly"}

\* What the Budget page's form is submitted with: a type and an amount in
\* cents.  6 is a price of the menu; 34/7 rounds up to 5 and 35/7 is 5; the
\* form also lets an amount of 0 through.
BudgetInputs ==
    { << "daily", 6 >>, << "weekly", 34 >>, << "weekly", 35 >>, << "daily", 0 >> }

\* The user the Budget page and the Analytics page are open for.
PageUser == "u1"

\* What a purchase can have cost (cents): prices of the menu.
TxAmounts == {1, 5, 6}

\* Price (cents) of each menu item, by id.
ItemPrice == << 7, 6, 5, 1, 4, 4 >>

MenuItem(i) == [id |-> i, price |-> ItemPrice[i]]

\* What the menu_items query can return on a day: the listing order is the
\* order of the sequence.
Menus ==
    { << >>,
      << MenuItem(1), MenuItem(2), MenuItem(3), MenuItem(4), MenuItem(5), MenuItem(6) >>,
      << MenuItem(1), MenuItem(3) >> }

(* --------------------------- program constants ------------------------- *)

\* affordable.slice(0, 3)
RecommendCount == 3

\* budget.amount / 7
DaysPerWeek == 7

\* Amounts A (cents, A a multiple of 7, A <= 100) for which the IEEE-754
\* double quotient (A/100)/7 is the double just below the double nearest to
\* the exact quotient A/700: 0.35/7 = 0.049999999999999996 < 0.05, and so on.
QuotientBelowExact == {35, 49, 70, 98}

\* Sequences of amounts (cents, of TxAmounts, up to three of them) whose
\* left-to-right sum in doubles, 0 + a1/100 + a2/100 + ..., is the double
\* just above the double nearest to the exact sum:
\* 0.01 + 0.05 = 0.060000000000000005 > 0.06.
SumAboveExact ==
    { << 1, 5 >>, << 5, 1 >>, << 1, 5, 5 >>, << 5, 1, 5 >>, << 5, 5, 5 >> }

\* Likewise, the sequences whose sum is the double just below:
\* 0.01 + 0.06 = 0.06999999999999999 < 0.07.
SumBelowExact ==
    { << 1, 6 >>, << 6, 1 >>, << 1, 6, 1 >>, << 5, 6, 6 >>, << 6, 1, 1 >>,
      << 6, 5, 6 >>, << 6, 6, 5 >> }

(* ------------------------------- state --------------------------------- *)

VARIABLES
    day,             \* the current calendar date, new Date().toISOString().split('T')[0]
    budgetsTable,    \* table budgets, in order of created_at
    recsTable,       \* table meal_recommendations (a set of rows)
    pc,              \* per tab: the await fetchMenuData / generateRecommendation is at
    user,            \* per tab: useAuth().user
    menuItems,       \* per tab: state menuItems (and the items passed on)
    recommendation,  \* per tab: state recommendation
    loading,         \* per tab: state loading
    reqDate,         \* per tab: the date put in the request in flight
    pending,         \* per tab: the row of the insert in flight
    budget,          \* per tab: generateRecommendation's budget
    dailyBudget,     \* per tab: generateRecommendation's dailyBudget
    insertError,     \* per tab: generateRecommendation's error of the insert
    fetchFailed,     \* per tab: fetchMenuData's catch ran ("Failed to fetch menu data")
    bpc,             \* Budget page: the await handleCreateBudget is at
    newBudget,       \* Budget page: the row handleCreateBudget is about to insert
    fpc,             \* Budget page: the await fetchBudgetData is at
    budgets,         \* Budget page: state budgets
    spending,        \* Budget page: state spending
    budgetLoading,   \* Budget page: state loading
    today,           \* Budget page: fetchBudgetData's today
    transactions,    \* Budget page: fetchBudgetData's transactions
    budgetFetchFailed,  \* Budget page: fetchBudgetData's catch ran
    apc,             \* Analytics page: the await fetchAnalyticsData is at
    analyticsTransactions,  \* Analytics page: state transactions
    totalSpent,      \* Analytics page: state totalSpent
    dailySpending,   \* Analytics page: state dailySpending
    categorySpending,   \* Analytics page: state categorySpending
    analyticsLoading,   \* Analytics page: state loading
    analyticsFailed, \* Analytics page: fetchAnalyticsData's catch ran
    saving,          \* Budget page: state saving
    createError,     \* Budget page: handleCreateBudget's catch ran
    deactivated,     \* the answer to handleCreateBudget's update, which it ignores
    txTable,         \* table transactions, in order of insertion
    purchaseLoading, \* per tab: state purchaseLoading (an item id, or 0 for null)
    purchasePending, \* per tab: the rows of handlePurchase's inserts in flight
    purchaseFailed,  \* per tab: handlePurchase's catch ran
    authLoading,     \* useAuth().loading
    roleLoading,     \* useAuth().roleLoading
    authUser,        \* useAuth().user
    userRole,        \* useAuth().userRole
    location,        \* the router's location
    rolesTable,      \* table user_roles (a set of rows)
    rpc,             \* System admin page: the await updateUserRole is at
    selectedUser,    \* System admin page: state selectedUser
    selectedRole,    \* System admin page: state selectedRole
    users,           \* System admin page: state users
    usersLoading,    \* System admin page: state loading
    upc,             \* System admin page: the await fetchUsers is at
    roleUpdateFailed \* System admin page: updateUserRole's catch ran

budgetPageVars == << fpc, budgets, spending, budgetLoading, today, transactions,
                     budgetFetchFailed >>

analyticsVars == << apc, analyticsTransactions, totalSpent, dailySpending,
                    categorySpending, analyticsLoading, analyticsFailed >>

purchaseVars == << txTable, purchaseLoading, purchasePending, purchaseFailed >>

routeVars == << authLoading, roleLoading, authUser, userRole, location >>

roleVars == << rolesTable, rpc, selectedUser, selectedRole, users, usersLoading,
               upc, roleUpdateFailed >>

vars == << day, budgetsTable, recsTable, pc, user, menuItems, recommendation,
           loading, reqDate, pending, budget, dailyBudget, insertError, fetchFailed,
           bpc, newBudget, budgetPageVars, analyticsVars, saving, createError,
           deactivated,
           purchaseVars, routeVars, roleVars >>

tabVars == << pc, user, menuItems, recommendation, loading, reqDate, pending,
              budget, dailyBudget, insertError, fetchFailed >>

\* recommendation === null
NoRec == [ids |-> << >>, cost |-> 0, reason |-> << "none", 0 >>]

\* budget === null / undefined
NoBudget == [user |-> NoUser, type |-> "none", amount |-> 0, active |-> FALSE]

NoPending == [user |-> NoUser, date |-> 0, ids |-> << >>, cost |-> 0,
              reason |-> << "none", 0 >>]

Min(a, b) == IF a <= b THEN a ELSE b

\* a / b rounded half-up to an integer (a >= 0, b > 0).
RoundHalfUp(a, b) == (2 * a + b) \div (2 * b)

\* dailyBudget before generateRecommendation has computed one
NoLimit == [num |-> 0, den |-> 1, below |-> FALSE]

\* A sum of money held in a double: the cents of the exact sum, and whether
\* the double is the one nearest to it (dev 0), the next above (1) or the
\* next below (-1).
Zero == [cents |-> 0, dev |-> 0]

\* useState({ today: 0, thisWeek: 0, dailyAverage: 0 })
NoSpending == [today |-> Zero, thisWeek |-> Zero, dailyAverage |-> [num |-> 0, den |-> 1]]

(* ---------------------------- pure functions --------------------------- *)

\* Variant of DailyBudget: the weekly quotient rounded to the cent.
DailyBudgetRounded(b) ==
    IF b.type = "daily"
    THEN [num |-> b.amount, den |-> 1, below |-> FALSE]
    ELSE [num |-> RoundHalfUp(b.amount, DaysPerWeek), den |-> 1, below |-> FALSE]

\* budget.budget_type === 'daily' ? budget.amount : budget.amount / 7
DailyBudget(b) ==
    IF b.type = "daily"
    THEN [num |-> b.amount, den |-> 1, below |-> FALSE]
    ELSE [num |-> b.amount, den |-> DaysPerWeek,
          below |-> b.amount \in QuotientBelowExact]

\* item.price <= dailyBudget, on doubles: exact unless the price is the exact
\* quotient, where the double quotient decides.
PriceWithin(price, limit) ==
    IF price * limit.den = limit.num
    THEN ~limit.below
    ELSE price * limit.den < limit.num

\* Variant of Affordable: every item when none is within the limit.
AffordableOrAll(items, limit) ==
    LET within == SelectSeq(items, LAMBDA item : PriceWithin(item.price, limit))
    IN  IF Len(within) = 0 THEN items ELSE within

\* items.filter(item => item.price <= dailyBudget)
Affordable(items, limit) ==
    SelectSeq(items, LAMBDA item : PriceWithin(item.price, limit))

\* Variant of Recommended: the last three, affordable.slice(-3).
RecommendedLast(affordable) ==
    SubSeq(affordable, Len(affordable) - Min(RecommendCount, Len(affordable)) + 1,
           Len(affordable))

\* affordable.slice(0, 3)
Recommended(affordable) ==
    SubSeq(affordable, 1, Min(RecommendCount, Len(affordable)))

\* Variant of TotalCost: the accumulator is dropped, (sum, item) => item.price.
TotalCostLastOnly(items) ==
    IF items = << >> THEN 0 ELSE items[Len(items)].price

\* recommended.reduce((sum, item) => sum + item.price, 0)
RECURSIVE TotalCost(_)
TotalCost(items) ==
    IF items = << >> THEN 0
    ELSE TotalCost(SubSeq(items, 1, Len(items) - 1)) + items[Len(items)].price

\* recommended.map(item => item.id)
ItemIds(items) == [i \in 1..Len(items) |-> items[i].id]

\* `Based on your ${budget.budget_type} budget of $${budget.amount}`
Reason(b) == << b.type, b.amount >>

\* Variant of ShouldGenerate: the stored recommendation is not looked at.
ShouldGenerateAlways(rec, items) == Len(items) > 0

\* !rec && items?.length
ShouldGenerate(rec, items) == rec = NoRec /\ Len(items) > 0

(* ------------------------------ the store ------------------------------ *)

\* The columns of a meal_recommendations row the Menu page keeps.
AsRecommendation(row) == [ids |-> row.ids, cost |-> row.cost, reason |-> row.reason]

\* .maybeSingle() on the budgets query: the row when the query matches exactly
\* one row; data is null when it matches none, and when it matches several
\* (error PGRST116, which generateRecommendation does not look at).
MaybeSingleBudget(rows) == IF Len(rows) = 1 THEN rows[1] ELSE NoBudget

\* .maybeSingle() on the meal_recommendations query, likewise: fetchMenuData
\* lets error PGRST116 pass.
MaybeSingleRec(rows) ==
    IF Cardinality(rows) = 1 THEN AsRecommendation(CHOOSE r \in rows : TRUE)
    ELSE NoRec

\* Variant of ActiveBudgetRows: without the is_active filter.
AllBudgetRows(table, u) ==
    SelectSeq(table, LAMBDA b : b.user = u)

\* from('budgets').select('*').eq('user_id', u).eq('is_active', true)
ActiveBudgetRows(table, u) ==
    SelectSeq(table, LAMBDA b : b.user = u /\ b.active)

\* from('meal_recommendations').select('*').eq('user_id', u).eq('recommended_date', d)
RecRows(u, d) == { r \in recsTable : r.user = u /\ r.date = d }

\* Variant of AmountCheck: a table without the constraint.
NoAmountCheck(row) == TRUE

\* amount DECIMAL(10,2) NOT NULL CHECK (amount > 0)
AmountCheck(row) == row.amount > 0

\* Variant of UniqueViolation: a table without the constraint.
NoUniqueViolation(table, row) == FALSE

\* UNIQUE(user_id, recommended_date)
UniqueViolation(table, row) ==
    \E r \in table : r.user = row.user /\ r.date = row.date

(* ------------------------------- Init ---------------------------------- *)
\* enum app_role
Roles == {"user", "cafeteria_admin", "system_admin"}

\* userRole of a user without a row in user_roles; selectedRole ''
NoRole == "none"

\* user_roles when the System admin page is opened: the signed-in user is a
\* system administrator, every other user has the default role
InitialRoles ==
    { [user |-> u, role |-> IF u = PageUser THEN "system_admin" ELSE "user"] :
        u \in Users }

InitData ==
    /\ day = 1
    /\ budgetsTable = << >>
    /\ recsTable = {}
    /\ pc = [t \in Tabs |-> "unmounted"]
    /\ user = [t \in Tabs |-> NoUser]
    /\ menuItems = [t \in Tabs |-> << >>]
    /\ recommendation = [t \in Tabs |-> NoRec]
    /\ loading = [t \in Tabs |-> TRUE]
    /\ reqDate = [t \in Tabs |-> 0]
    /\ pending = [t \in Tabs |-> NoPending]
    /\ budget = [t \in Tabs |-> NoBudget]
    /\ dailyBudget = [t \in Tabs |-> NoLimit]
    /\ insertError = [t \in Tabs |-> "none"]
    /\ fetchFailed = [t \in Tabs |-> FALSE]
    /\ bpc = "idle"
    /\ newBudget = NoBudget
    /\ fpc = "unmounted"
    /\ budgets = << >>
    /\ spending = NoSpending
    /\ budgetLoading = TRUE
    /\ today = 0
    /\ transactions = << >>
    /\ budgetFetchFailed = FALSE
    /\ apc = "unmounted"
    /\ analyticsTransactions = << >>
    /\ totalSpent = Zero
    /\ dailySpending = << >>
    /\ categorySpending = << >>
    /\ analyticsLoading = TRUE
    /\ analyticsFailed = FALSE
    /\ saving = FALSE
    /\ createError = FALSE
    /\ deactivated = FALSE
    /\ txTable = << >>
    /\ purchaseLoading = [t \in Tabs |-> 0]
    /\ purchasePending = [t \in Tabs |-> << >>]
    /\ purchaseFailed = [t \in Tabs |-> FALSE]
    /\ authLoading = TRUE
    /\ roleLoading = TRUE
    /\ authUser = NoUser
    /\ userRole = NoRole
    /\ rolesTable = InitialRoles
    /\ rpc = "idle"
    /\ selectedUser = NoUser
    /\ selectedRole = NoRole
    /\ users = {}
    /\ usersLoading = TRUE
    /\ upc = "unmounted"
    /\ roleUpdateFailed = FALSE

\* The tab is opened on the Menu page.
Init ==
    /\ InitData
    /\ location = "/"

(* ----------------------------- Menu page ------------------------------- *)

\* The Menu page is opened (or reloaded) in tab t: its state starts from the
\* useState initial values and the effect calls fetchMenuData, which sends
\* the menu_items query.
Mount(t) ==
    /\ pc[t] \in {"unmounted", "done"}
    /\ purchasePending[t] = << >>
    /\ \E u \in MenuUsers \cup {NoUser} : user' = [user EXCEPT ![t] = u]
    /\ pc' = [pc EXCEPT ![t] = "fetchItems"]
    /\ menuItems' = [menuItems EXCEPT ![t] = << >>]
    /\ recommendation' = [recommendation EXCEPT ![t] = NoRec]
    /\ loading' = [loading EXCEPT ![t] = TRUE]
    /\ insertError' = [insertError EXCEPT ![t] = "none"]
    /\ fetchFailed' = [fetchFailed EXCEPT ![t] = FALSE]
    /\ UNCHANGED << day, budgetsTable, recsTable, reqDate, pending, budget,
                    dailyBudget, bpc, newBudget, saving, createError, deactivated, budgetPageVars,
                    analyticsVars,
                    purchaseVars, routeVars, roleVars >>

\* Variant of FetchThrows: a catch that is not followed by the finally block.
FetchThrowsNoFinally(t) ==
    /\ fetchFailed' = [fetchFailed EXCEPT ![t] = TRUE]
    /\ loading' = loading
    /\ pc' = [pc EXCEPT ![t] = "done"]

\* fetchMenuData's catch and finally: the toast, setLoading(false).
FetchThrows(t) ==
    /\ fetchFailed' = [fetchFailed EXCEPT ![t] = TRUE]
    /\ loading' = [loading EXCEPT ![t] = FALSE]
    /\ pc' = [pc EXCEPT ![t] = "done"]

\* fetchMenuData, from the answer of the menu_items query to the request for
\* today's recommendation.
FetchItems(t) ==
    /\ pc[t] = "fetchItems"
    /\ \E ok \in BOOLEAN, items \in Menus :
         IF ~ok
         THEN /\ FetchThrows(t)
              /\ UNCHANGED << menuItems, reqDate >>
         ELSE /\ menuItems' = [menuItems EXCEPT ![t] = items]
              /\ fetchFailed' = fetchFailed
              /\ IF user[t] = NoUser
                 THEN /\ loading' = [loading EXCEPT ![t] = FALSE]
                      /\ pc' = [pc EXCEPT ![t] = "done"]
                      /\ reqDate' = reqDate
                 ELSE /\ reqDate' = [reqDate EXCEPT ![t] = day]
                      /\ pc' = [pc EXCEPT ![t] = "fetchRec"]
                      /\ loading' = loading
    /\ UNCHANGED << day, budgetsTable, recsTable, user, recommendation, pending,
                    budget, dailyBudget, insertError, bpc, newBudget, saving, createError, deactivated, budgetPageVars,
                    analyticsVars,
                    purchaseVars, routeVars, roleVars >>

\* fetchMenuData, from the answer of the meal_recommendations query on: the
\* call of generateRecommendation is not awaited, so the finally block runs
\* as soon as generateRecommendation has sent its budgets query.
FetchRec(t) ==
    /\ pc[t] = "fetchRec"
    /\ reqDate' = [reqDate EXCEPT ![t] = 0]
    /\ \E ok \in BOOLEAN :
         IF ~ok
         THEN /\ FetchThrows(t)
              /\ UNCHANGED recommendation
         ELSE LET rec == MaybeSingleRec(RecRows(user[t], reqDate[t]))
              IN  /\ recommendation' = [recommendation EXCEPT ![t] = rec]
                  /\ loading' = [loading EXCEPT ![t] = FALSE]
                  /\ fetchFailed' = fetchFailed
                  /\ pc' = [pc EXCEPT ![t] =
                              IF ShouldGenerate(rec, menuItems[t])
                              THEN "genBudget" ELSE "done"]
    /\ UNCHANGED << day, budgetsTable, recsTable, user, menuItems, pending,
                    budget, dailyBudget, insertError, bpc, newBudget, saving, createError, deactivated, budgetPageVars,
                    analyticsVars,
                    purchaseVars, routeVars, roleVars >>

\* generateRecommendation, from the answer of the budgets query, which
\* matched `rows`, to the insert it sends (or to its return).  A failed
\* query leaves data null.  budget and dailyBudget are kept while the insert
\* is in flight.
GenBudget(t, rows) ==
    /\ pc[t] = "genBudget"
    /\ \E ok \in BOOLEAN :
         LET b == IF ok THEN MaybeSingleBudget(rows) ELSE NoBudget
             limit == DailyBudget(b)
             affordable == Affordable(menuItems[t], limit)
             recommended == Recommended(affordable)
         IN  IF b = NoBudget \/ Len(affordable) = 0
             THEN /\ pc' = [pc EXCEPT ![t] = "done"]
                  /\ UNCHANGED << budget, dailyBudget, pending >>
             ELSE /\ pc' = [pc EXCEPT ![t] = "genInsert"]
                  /\ budget' = [budget EXCEPT ![t] = b]
                  /\ dailyBudget' = [dailyBudget EXCEPT ![t] = limit]
                  /\ pending' = [pending EXCEPT ![t] =
                        [user |-> user[t], date |-> day,
                         ids |-> ItemIds(recommended),
                         cost |-> TotalCost(recommended),
                         reason |-> Reason(b)]]
    /\ UNCHANGED << day, budgetsTable, recsTable, user, menuItems, recommendation,
                    loading, reqDate, insertError, fetchFailed, bpc, newBudget, saving, createError, deactivated, budgetPageVars,
                    analyticsVars,
                    purchaseVars, routeVars, roleVars >>

\* generateRecommendation, from the answer of the insert on: the store
\* rejects the row on a storage failure or on its uniqueness constraint.
GenInsert(t) ==
    /\ pc[t] = "genInsert"
    /\ pc' = [pc EXCEPT ![t] = "done"]
    /\ pending' = [pending EXCEPT ![t] = NoPending]
    /\ budget' = [budget EXCEPT ![t] = NoBudget]
    /\ dailyBudget' = [dailyBudget EXCEPT ![t] = NoLimit]
    /\ \E ok \in BOOLEAN :
         IF ~ok
         THEN /\ insertError' = [insertError EXCEPT ![t] = "failure"]
              /\ UNCHANGED << recsTable, recommendation >>
         ELSE IF UniqueViolation(recsTable, pending[t])
         THEN /\ insertError' = [insertError EXCEPT ![t] = "conflict"]
              /\ UNCHANGED << recsTable, recommendation >>
         ELSE /\ recsTable' = recsTable \cup {pending[t]}
              /\ recommendation' = [recommendation EXCEPT ![t] =
                                       AsRecommendation(pending[t])]
              /\ insertError' = insertError
    /\ UNCHANGED << day, budgetsTable, user, menuItems, loading, reqDate,
                    fetchFailed, bpc, newBudget, saving, createError, deactivated, budgetPageVars,
                    analyticsVars,
                    purchaseVars, routeVars, roleVars >>

\* Midnight (UTC): the date of new Date().toISOString() changes.
Tick ==
    /\ day < MaxDay
    /\ day' = day + 1
    /\ UNCHANGED << budgetsTable, recsTable, tabVars, bpc, newBudget, saving, createError, deactivated, budgetPageVars,
                    analyticsVars,
                    purchaseVars, routeVars, roleVars >>

(* ----------------------------- Budget page ----------------------------- *)

\* An update that matches no row: what handleCreateBudget would send if it
\* left the previous budgets alone.
DeactivateNone(table, u, type) == table

\* update({ is_active: false }).eq('user_id', u).eq('budget_type', type)
Deactivate(table, u, type) ==
    [i \in 1..Len(table) |->
        IF table[i].user = u /\ table[i].type = type
        THEN [table[i] EXCEPT !.active = FALSE]
        ELSE table[i]]

\* handleCreateBudget up to its insert: the result of the deactivating update
\* is not looked at, so the insert is sent whether it succeeded or not.
CreateDeactivateBy(creators, inputs) ==
    /\ bpc = "idle"
    /\ Len(budgetsTable) < MaxBudgets
    /\ \E u \in creators, input \in inputs, ok \in BOOLEAN :
         /\ budgetsTable' = IF ok THEN Deactivate(budgetsTable, u, input[1])
                            ELSE budgetsTable
         /\ newBudget' = [user |-> u, type |-> input[1], amount |-> input[2],
                          active |-> TRUE]
         /\ deactivated' = ok
    /\ bpc' = "insert"
    /\ saving' = TRUE
    /\ createError' = FALSE
    /\ UNCHANGED << day, recsTable, tabVars, budgetPageVars,
                    analyticsVars,
                    purchaseVars, routeVars, roleVars >>

\* handleCreateBudget called by any user with any input of the form.
CreateDeactivate == CreateDeactivateBy(Users, BudgetInputs)

\* handleCreateBudget from the answer of its insert on: the store rejects the
\* row on a storage failure or on the check of its amount.
CreateInsert ==
    /\ bpc = "insert"
    /\ \E ok \in BOOLEAN :
         /\ budgetsTable' = IF ok /\ AmountCheck(newBudget)
                            THEN Append(budgetsTable, newBudget)
                            ELSE budgetsTable
         /\ createError' = ~(ok /\ AmountCheck(newBudget))
    /\ bpc' = "idle"
    /\ newBudget' = NoBudget
    /\ saving' = FALSE
    /\ UNCHANGED << deactivated, day, recsTable, tabVars, budgetPageVars,
                    analyticsVars,
                    purchaseVars, routeVars, roleVars >>

\* toggleBudgetStatus(budgetId, currentStatus): currentStatus is the value
\* the page last fetched, which another device may have changed since.
ToggleBudgetStatus ==
    /\ \E i \in 1..Len(budgetsTable), currentStatus \in BOOLEAN :
         budgetsTable' = [budgetsTable EXCEPT ![i].active = ~currentStatus]
    /\ UNCHANGED << day, recsTable, tabVars, bpc, newBudget, saving, createError, deactivated, budgetPageVars,
                    analyticsVars,
                    purchaseVars, routeVars, roleVars >>

\* from('budgets').select('*').eq('user_id', u).order('created_at', { ascending: false })
FetchBudgets(table, u) ==
    LET mine == SelectSeq(table, LAMBDA b : b.user = u)
    IN  [i \in 1..Len(mine) |-> mine[Len(mine) + 1 - i]]

\* budgets.find(b => b.is_active)
GetActiveBudget(list) ==
    LET active == SelectSeq(list, LAMBDA b : b.active)
    IN  IF Len(active) = 0 THEN NoBudget ELSE active[1]

\* getBudgetProgress().dailyLimit: 0 without an active budget
GetBudgetProgressLimit(list) ==
    LET activeBudget == GetActiveBudget(list)
    IN  IF activeBudget = NoBudget THEN NoLimit ELSE DailyBudget(activeBudget)

(* --------------------------- specifications ---------------------------- *)

\* The rows the budgets table can hold, and the tables the Budget page can
\* leave behind: CreateInsert appends any row the store accepts,
\* ToggleBudgetStatus sets any is_active.
BudgetRows ==
    { row \in { [user |-> u, type |-> input[1], amount |-> input[2], active |-> a] :
                  u \in Users, input \in BudgetInputs, a \in BOOLEAN } :
        AmountCheck(row) }

BudgetTables == UNION { [1..n -> BudgetRows] : n \in 0..MaxBudgets }

\* What the query for u's active budgets can match on those tables.
BudgetAnswers ==
    [u \in MenuUsers |-> { ActiveBudgetRows(table, u) : table \in BudgetTables }]

\* What the Budget page's budgets query can return for its user on the
\* tables the page's operations can leave behind.
BudgetLists == { FetchBudgets(table, PageUser) : table \in BudgetTables }

\* generateRecommendation's budgets query answered from any table the Budget
\* page can have left at that moment.
GenBudgetAnyTable(t) ==
    /\ pc[t] = "genBudget"
    /\ \E rows \in BudgetAnswers[user[t]] : GenBudget(t, rows)

\* generateRecommendation's budgets query answered from budgetsTable.
GenBudgetOnTable(t) ==
    GenBudget(t, ActiveBudgetRows(budgetsTable, user[t]))

(* ----------------------- Budget page: spending ------------------------- *)

\* The transaction_date values of the rows a query made on date d can
\* return, as << date, hour >>: late the day before, and on the day itself.
TxStamps(d) == { << d - 1, 21 >>, << d, 0 >>, << d, 21 >> }

\* from('transactions').select('amount, transaction_date'): what the query
\* can return on date d, all of it within the seven days before.
TxAnswers(d) ==
    LET rows == { [amount |-> a, date |-> st] : a \in TxAmounts, st \in TxStamps(d) }
    IN  UNION { [1..n -> rows] : n \in 0..MaxTx }

\* Variant of StartsWith: any date matches.
StartsWithAny(stamp, date) == TRUE

\* t.transaction_date.startsWith(today): the date part of the timestamp is
\* the date.
StartsWith(stamp, date) == stamp[1] = date

\* transactions.map(t => parseFloat(t.amount.toString()))
Amounts(rows) == [i \in 1..Len(rows) |-> rows[i].amount]

RECURSIVE SumCents(_)
SumCents(amounts) ==
    IF amounts = << >> THEN 0
    ELSE SumCents(SubSeq(amounts, 1, Len(amounts) - 1)) + amounts[Len(amounts)]

\* amounts.reduce((sum, a) => sum + a, 0) on doubles
SumDoubles(amounts) ==
    [cents |-> SumCents(amounts),
     dev |-> IF amounts \in SumAboveExact THEN 1
             ELSE IF amounts \in SumBelowExact THEN -1 ELSE 0]

\* Variant of Summarize: the average over the dates that have transactions.
SummarizeActiveDays(rows, date) ==
    LET todaySpending ==
            SumDoubles(Amounts(SelectSeq(rows, LAMBDA t : StartsWith(t.date, date))))
        weekSpending == SumDoubles(Amounts(rows))
        dates == { rows[i].date[1] : i \in 1..Len(rows) }
    IN  [today |-> todaySpending, thisWeek |-> weekSpending,
         dailyAverage |-> [num |-> weekSpending.cents,
                           den |-> IF dates = {} THEN 1 ELSE Cardinality(dates)]]

\* Variant of Summarize: the week's total leaves out the rows of today.
SummarizeWeekBeforeToday(rows, date) ==
    LET todaySpending ==
            SumDoubles(Amounts(SelectSeq(rows, LAMBDA t : StartsWith(t.date, date))))
        weekSpending ==
            SumDoubles(Amounts(SelectSeq(rows, LAMBDA t : ~StartsWith(t.date, date))))
    IN  [today |-> todaySpending, thisWeek |-> weekSpending,
         dailyAverage |-> [num |-> weekSpending.cents, den |-> DaysPerWeek]]

\* fetchBudgetData's todaySpending, weekSpending and dailyAverage
\* (weekSpending / 7, kept as a fraction)
Summarize(rows, date) ==
    LET todaySpending ==
            SumDoubles(Amounts(SelectSeq(rows, LAMBDA t : StartsWith(t.date, date))))
        weekSpending == SumDoubles(Amounts(rows))
    IN  [today |-> todaySpending, thisWeek |-> weekSpending,
         dailyAverage |-> [num |-> weekSpending.cents, den |-> DaysPerWeek]]

\* The Budget page is opened: its state starts from the useState initial
\* values and the effect calls fetchBudgetData, which sends the budgets
\* query.
BudgetPageMount ==
    /\ fpc \in {"unmounted", "done"}
    /\ fpc' = "budgets"
    /\ budgets' = << >>
    /\ spending' = NoSpending
    /\ budgetLoading' = TRUE
    /\ today' = 0
    /\ transactions' = << >>
    /\ budgetFetchFailed' = FALSE
    /\ UNCHANGED << day, budgetsTable, recsTable, tabVars, bpc, newBudget, saving, createError, deactivated,
                    analyticsVars,
                    purchaseVars, routeVars, roleVars >>

\* fetchBudgetData's catch and finally: the toast, setLoading(false).
BudgetFetchThrows ==
    /\ budgetFetchFailed' = TRUE
    /\ budgetLoading' = FALSE
    /\ fpc' = "done"

\* fetchBudgetData, from the answer of the budgets query to the
\* transactions query it sends.
FetchBudgetsAnswer(lists) ==
    /\ fpc = "budgets"
    /\ \E ok \in BOOLEAN, rows \in lists :
         IF ~ok
         THEN /\ BudgetFetchThrows
              /\ UNCHANGED << budgets, today >>
         ELSE /\ budgets' = rows
              /\ today' = day
              /\ fpc' = "transactions"
              /\ UNCHANGED << budgetLoading, budgetFetchFailed >>
    /\ UNCHANGED << spending, transactions >>
    /\ UNCHANGED << day, budgetsTable, recsTable, tabVars, bpc, newBudget, saving, createError, deactivated,
                    analyticsVars,
                    purchaseVars, routeVars, roleVars >>

\* The budgets query answered with any list the page's operations can have
\* left for its user.
FetchBudgetsResponse == FetchBudgetsAnswer(BudgetLists)

\* fetchBudgetData, from the answer of the transactions query on.
FetchTransactionsAnswer(answers) ==
    /\ fpc = "transactions"
    /\ \E ok \in BOOLEAN, rows \in answers :
         IF ~ok
         THEN /\ BudgetFetchThrows
              /\ UNCHANGED << spending, transactions >>
         ELSE /\ transactions' = rows
              /\ spending' = Summarize(rows, today)
              /\ budgetLoading' = FALSE
              /\ fpc' = "done"
              /\ UNCHANGED budgetFetchFailed
    /\ UNCHANGED << budgets, today >>
    /\ UNCHANGED << day, budgetsTable, recsTable, tabVars, bpc, newBudget, saving, createError, deactivated,
                    analyticsVars,
                    purchaseVars, routeVars, roleVars >>

\* The transactions query answered with any purchases of the last seven days.
FetchTransactionsResponse == FetchTransactionsAnswer(TxAnswers(day))

\* spending.today > dailyLimit, on doubles: exact unless the spending is the
\* exact limit in cents, where the last bits of the two doubles decide.
Exceeds(amount, limit) ==
    IF amount.cents * limit.den = limit.num
    THEN amount.dev > (IF limit.below THEN -1 ELSE 0)
    ELSE amount.cents * limit.den > limit.num

\* (spending.today / dailyLimit) * 100, as a fraction; den = 0 stands for
\* Infinity (num > 0) and NaN (num = 0).
ProgressOf(amount, limit) ==
    [num |-> amount.cents * limit.den * 100, den |-> limit.num]

\* Variant of MinPercent: no cap.
NoCap(p) == p

\* Math.min(progress, 100)
MinPercent(p) ==
    IF p.den = 0
    THEN IF p.num = 0 THEN p ELSE [num |-> 100, den |-> 1]
    ELSE IF p.num >= 100 * p.den THEN [num |-> 100, den |-> 1] ELSE p

\* Variant of GetBudgetProgress: without the return for no active budget.
GetBudgetProgressUnguarded(list, spent) ==
    LET activeBudget == GetActiveBudget(list)
        dailyLimit == DailyBudget(activeBudget)
    IN  [progress |-> MinPercent(ProgressOf(spent.today, dailyLimit)),
         isOverBudget |-> Exceeds(spent.today, dailyLimit),
         dailyLimit |-> dailyLimit]

\* getBudgetProgress() on the page's state
GetBudgetProgress(list, spent) ==
    LET activeBudget == GetActiveBudget(list)
        dailyLimit == DailyBudget(activeBudget)
    IN  IF activeBudget = NoBudget
        THEN [progress |-> [num |-> 0, den |-> 1], isOverBudget |-> FALSE,
              dailyLimit |-> NoLimit]
        ELSE [progress |-> MinPercent(ProgressOf(spent.today, dailyLimit)),
              isOverBudget |-> Exceeds(spent.today, dailyLimit),
              dailyLimit |-> dailyLimit]

(* --------------------------- Analytics page ---------------------------- *)

Categories == {"Main Course", "Salad"}

\* t.menu_items?.category of a transaction whose menu item the join did not
\* return (menu_items is null), or whose category is the empty string.
NoCategory == ""

\* transaction_date ascending
StampOrdered(a, b) == a[1] < b[1] \/ (a[1] = b[1] /\ a[2] <= b[2])

\* from('transactions').select('id, amount, transaction_date,
\* menu_items (name, category)').order('transaction_date', { ascending: true }):
\* what the query can return on date d, all of it within the thirty days
\* before.
AnalyticsAnswers(d) ==
    LET rows == { [amount |-> a, date |-> st, category |-> c] :
                    a \in TxAmounts, st \in TxStamps(d),
                    c \in Categories \cup {NoCategory} }
    IN  { answer \in UNION { [1..n -> rows] : n \in 0..MaxTx } :
            \A i \in 1..(Len(answer) - 1) :
                StampOrdered(answer[i].date, answer[i + 1].date) }

\* Number(amount.toFixed(2)): the double rounded to the cent.
ToFixed2(amount) == amount.cents

\* processDailySpending: an entry for each of the last seven dates, oldest
\* first, with the amounts of the transactions whose timestamp has that
\* date as its date part.  The dates are kept as they are, not as labels.
ProcessDailySpending(rows, d) ==
    [k \in 1..DaysPerWeek |->
        LET date == d - DaysPerWeek + k
        IN  [date |-> date,
             amount |-> ToFixed2(SumDoubles(Amounts(
                            SelectSeq(rows, LAMBDA t : t.date[1] = date))))]]

\* Variant of CategoryOf: without the fallback.
CategoryOfRaw(t) == t.category

\* t.menu_items?.category || 'Unknown'
CategoryOf(t) == IF t.category = NoCategory THEN "Unknown" ELSE t.category

\* The categoryMap after the forEach: its entries in the order of insertion,
\* each with the amounts added to it, in order, and their number.
RECURSIVE CategoryMap(_)
CategoryMap(rows) ==
    IF rows = << >> THEN << >>
    ELSE LET map == CategoryMap(SubSeq(rows, 1, Len(rows) - 1))
             t == rows[Len(rows)]
             category == CategoryOf(t)
         IN  IF \E k \in 1..Len(map) : map[k].category = category
             THEN [k \in 1..Len(map) |->
                     IF map[k].category = category
                     THEN [map[k] EXCEPT !.amounts = Append(@, t.amount),
                                         !.count = @ + 1]
                     ELSE map[k]]
             ELSE Append(map, [category |-> category, amounts |-> << t.amount >>,
                               count |-> 1])

\* Variant of InsertDescending: an entry goes before the entries of its amount.
InsertBeforeEqual(sorted, e) ==
    LET k == Cardinality({ i \in 1..Len(sorted) : sorted[i].amount > e.amount })
    IN  SubSeq(sorted, 1, k) \o << e >> \o SubSeq(sorted, k + 1, Len(sorted))

\* One step of .sort((a, b) => b.amount - a.amount), which is stable: an
\* entry goes after the entries that are not smaller.
InsertDescending(sorted, e) ==
    LET k == Cardinality({ i \in 1..Len(sorted) : sorted[i].amount >= e.amount })
    IN  SubSeq(sorted, 1, k) \o << e >> \o SubSeq(sorted, k + 1, Len(sorted))

\* .sort((a, b) => b.amount - a.amount)
RECURSIVE SortDescending(_)
SortDescending(entries) ==
    IF entries = << >> THEN << >>
    ELSE InsertDescending(SortDescending(SubSeq(entries, 1, Len(entries) - 1)),
                          entries[Len(entries)])

\* processCategorySpending
ProcessCategorySpending(rows) ==
    LET map == CategoryMap(rows)
    IN  SortDescending([k \in 1..Len(map) |->
            [category |-> map[k].category,
             amount |-> ToFixed2(SumDoubles(map[k].amounts)),
             count |-> map[k].count]])

\* The Analytics page is opened: its state starts from the useState initial
\* values and the effect calls fetchAnalyticsData, which sends its query.
AnalyticsMount ==
    /\ apc \in {"unmounted", "done"}
    /\ apc' = "fetch"
    /\ analyticsTransactions' = << >>
    /\ totalSpent' = Zero
    /\ dailySpending' = << >>
    /\ categorySpending' = << >>
    /\ analyticsLoading' = TRUE
    /\ analyticsFailed' = FALSE
    /\ UNCHANGED << day, budgetsTable, recsTable, tabVars, bpc, newBudget, saving, createError, deactivated,
                    budgetPageVars,
                    purchaseVars, routeVars, roleVars >>

\* fetchAnalyticsData from the answer of its query on.
AnalyticsAnswer(answers) ==
    /\ apc = "fetch"
    /\ \E ok \in BOOLEAN, rows \in answers :
         IF ~ok
         THEN /\ analyticsFailed' = TRUE
              /\ UNCHANGED << analyticsTransactions, totalSpent, dailySpending,
                              categorySpending >>
         ELSE /\ analyticsTransactions' = rows
              /\ totalSpent' = SumDoubles(Amounts(rows))
              /\ dailySpending' = ProcessDailySpending(rows, day)
              /\ categorySpending' = ProcessCategorySpending(rows)
              /\ UNCHANGED analyticsFailed
    /\ analyticsLoading' = FALSE
    /\ apc' = "done"
    /\ UNCHANGED << day, budgetsTable, recsTable, tabVars, bpc, newBudget, saving, createError, deactivated,
                    budgetPageVars,
                    purchaseVars, routeVars, roleVars >>

\* The query answered with any purchases of the last thirty days.
AnalyticsResponse == AnalyticsAnswer(AnalyticsAnswers(day))

\* Spec: the Menu page open in several tabs at once, on one store.  The
\* budgets table is not tracked here: each budgets query is answered from
\* any table the Budget page can have left at that moment.
Next ==
    \/ \E t \in Tabs : Mount(t)
    \/ \E t \in Tabs : FetchItems(t)
    \/ \E t \in Tabs : FetchRec(t)
    \/ \E t \in Tabs : GenBudgetAnyTable(t)
    \/ \E t \in Tabs : GenInsert(t)
    \/ Tick

Spec == Init /\ [][Next]_vars

\* SpecBudgets: the Budget page's operations on the budgets table, and the
\* Menu page of one tab reading that table.
NextBudgets ==
    \/ CreateDeactivate
    \/ CreateInsert
    \/ ToggleBudgetStatus
    \/ Mount("t1")
    \/ FetchItems("t1")
    \/ FetchRec("t1")
    \/ GenBudgetOnTable("t1")
    \/ GenInsert("t1")

SpecBudgets == Init /\ [][NextBudgets]_vars

\* SpecBudgetPage: the Budget page fetching its budgets and the spending of
\* the last seven days, over the change of date.
NextBudgetPage ==
    \/ BudgetPageMount
    \/ FetchBudgetsResponse
    \/ FetchTransactionsResponse
    \/ Tick

SpecBudgetPage == Init /\ [][NextBudgetPage]_vars

\* SpecAnalytics: the Analytics page fetching the transactions of the last
\* thirty days and deriving its figures, over the change of date.
NextAnalytics ==
    \/ AnalyticsMount
    \/ AnalyticsResponse
    \/ Tick

SpecAnalytics == Init /\ [][NextAnalytics]_vars

(* ------------------------------ purchases ------------------------------ *)

\* Variant of PurchaseRow: the amount is the price times the item's id.
PurchaseRowTimesId(u, item) ==
    [user |-> u, item |-> item.id, amount |-> item.price * item.id,
     quantity |-> 1]

\* The row handlePurchase inserts into transactions.
PurchaseRow(u, item) ==
    [user |-> u, item |-> item.id, amount |-> item.price, quantity |-> 1]

\* The inserts into transactions that are in flight, over all tabs.
InFlight(p) == Len(p["t1"]) + Len(p["t2"])

\* handlePurchase(item) up to its insert: the button of an item is shown once
\* the page has loaded and is disabled while purchaseLoading is that item.
PurchaseStart(t) ==
    /\ user[t] # NoUser
    /\ ~loading[t]
    /\ Len(txTable) + InFlight(purchasePending) < MaxTx
    /\ \E i \in 1..Len(menuItems[t]) :
         /\ purchaseLoading[t] # menuItems[t][i].id
         /\ purchaseLoading' =
              [purchaseLoading EXCEPT ![t] = menuItems[t][i].id]
         /\ purchasePending' =
              [purchasePending EXCEPT
                 ![t] = Append(@, PurchaseRow(user[t], menuItems[t][i]))]
    /\ UNCHANGED << txTable, purchaseFailed >>
    /\ UNCHANGED << day, budgetsTable, recsTable, tabVars, bpc, newBudget,
                    saving, createError, deactivated, budgetPageVars,
                    analyticsVars, routeVars, roleVars >>

\* A sequence without its k-th element.
Without(seq, k) == [i \in 1..(Len(seq) - 1) |-> IF i < k THEN seq[i] ELSE seq[i + 1]]

\* handlePurchase from the answer of its insert on: the toast of the try or
\* of the catch, and setPurchaseLoading(null) in the finally block.
PurchaseResponse(t) ==
    /\ \E k \in 1..Len(purchasePending[t]), ok \in BOOLEAN :
         /\ txTable' = IF ok THEN Append(txTable, purchasePending[t][k])
                       ELSE txTable
         /\ purchaseFailed' = [purchaseFailed EXCEPT ![t] = ~ok]
         /\ purchasePending' =
              [purchasePending EXCEPT ![t] = Without(@, k)]
    /\ purchaseLoading' = [purchaseLoading EXCEPT ![t] = 0]
    /\ UNCHANGED << day, budgetsTable, recsTable, tabVars, bpc, newBudget,
                    saving, createError, deactivated, budgetPageVars,
                    analyticsVars, routeVars, roleVars >>

\* SpecPurchase: the Menu page of one tab loading its menu and recording
\* purchases.
NextPurchase ==
    \/ Mount("t1")
    \/ FetchItems("t1")
    \/ FetchRec("t1")
    \/ GenBudgetAnyTable("t1")
    \/ GenInsert("t1")
    \/ PurchaseStart("t1")
    \/ PurchaseResponse("t1")

SpecPurchase == Init /\ [][NextPurchase]_vars

(* ------------------------------- routes -------------------------------- *)

\* The locations a visitor can ask for: the declared routes and one path
\* that only the catch-all route matches.
Paths == {"/auth", "/", "/budget", "/analytics", "/profile", "/system-admin",
          "/cafeteria-admin", "/other"}

\* What a route element renders.
Spinner == [kind |-> "spinner", to |-> "", layout |-> FALSE]

NavigateTo(path) == [kind |-> "redirect", to |-> path, layout |-> FALSE]

\* <Layout>{children}</Layout>
InLayout(page) == [kind |-> page, to |-> "", layout |-> TRUE]

Bare(page) == [kind |-> page, to |-> "", layout |-> FALSE]

ProtectedRoute(page) ==
    IF authLoading \/ roleLoading THEN Spinner
    ELSE IF authUser # NoUser THEN InLayout(page) ELSE NavigateTo("/auth")

PublicRoute(page) ==
    IF authLoading \/ roleLoading THEN Spinner
    ELSE IF authUser # NoUser THEN NavigateTo("/") ELSE Bare(page)

\* Variant of AdminRoute: only the required role is admitted.
AdminRouteExactRole(requiredRole, page) ==
    IF authLoading \/ roleLoading THEN Spinner
    ELSE IF authUser = NoUser THEN NavigateTo("/auth")
    ELSE IF userRole # requiredRole THEN NavigateTo("/")
    ELSE InLayout(page)

AdminRoute(requiredRole, page) ==
    IF authLoading \/ roleLoading THEN Spinner
    ELSE IF authUser = NoUser THEN NavigateTo("/auth")
    ELSE IF userRole # requiredRole /\ userRole # "system_admin"
         THEN NavigateTo("/")
    ELSE InLayout(page)

\* <Routes>: the element of the route that matches a path
RouteElement(path) ==
    CASE path = "/auth" -> PublicRoute("Auth")
      [] path = "/" -> ProtectedRoute("Menu")
      [] path = "/budget" -> ProtectedRoute("Budget")
      [] path = "/analytics" -> ProtectedRoute("Analytics")
      [] path = "/profile" -> ProtectedRoute("Profile")
      [] path = "/system-admin" ->
            AdminRoute("system_admin", "SystemAdminDashboard")
      [] path = "/cafeteria-admin" ->
            AdminRoute("cafeteria_admin", "CafeteriaAdminDashboard")
      [] OTHER -> Bare("NotFound")

\* What the application shows at the current location.
Rendered == RouteElement(location)

\* Variant of getNavItems: the entry of the cafeteria page is shown to
\* system administrators only.
GetNavItemsSystemOnly(role) ==
    << "/", "/budget", "/analytics", "/profile" >>
    \o (IF role = "system_admin" THEN << "/system-admin", "/cafeteria-admin" >>
        ELSE << >>)

\* Layout's getNavItems: the paths of the entries, in order
GetNavItems(role) ==
    << "/", "/budget", "/analytics", "/profile" >>
    \o (IF role = "system_admin" THEN << "/system-admin", "/cafeteria-admin" >>
        ELSE IF role = "cafeteria_admin" THEN << "/cafeteria-admin" >>
        ELSE << >>)

\* The navigation entries Layout shows in the current state.
NavPaths == { GetNavItems(userRole)[i] : i \in 1..Len(GetNavItems(userRole)) }

\* useAuth's provider is outside the sources: what it hands to the routes
\* changes to any value of its types.
AuthChange ==
    /\ authLoading' \in BOOLEAN
    /\ roleLoading' \in BOOLEAN
    /\ authUser' \in Users \cup {NoUser}
    /\ userRole' \in Roles \cup {NoRole}
    /\ UNCHANGED location
    /\ UNCHANGED << day, budgetsTable, recsTable, tabVars, bpc, newBudget,
                    saving, createError, deactivated, budgetPageVars,
                    analyticsVars, purchaseVars, roleVars >>

\* The visitor enters an address, or follows one of the entries Layout shows.
Visit ==
    /\ \E path \in Paths :
         location' = path
    /\ UNCHANGED << authLoading, roleLoading, authUser, userRole >>
    /\ UNCHANGED << day, budgetsTable, recsTable, tabVars, bpc, newBudget,
                    saving, createError, deactivated, budgetPageVars,
                    analyticsVars, purchaseVars, roleVars >>

\* <Navigate to=... /> takes effect.
FollowRedirect ==
    /\ Rendered.kind = "redirect"
    /\ location' = Rendered.to
    /\ UNCHANGED << authLoading, roleLoading, authUser, userRole >>
    /\ UNCHANGED << day, budgetsTable, recsTable, tabVars, bpc, newBudget,
                    saving, createError, deactivated, budgetPageVars,
                    analyticsVars, purchaseVars, roleVars >>

\* Layout's handleSignOut: signOut() belongs to useAuth's provider, then
\* navigate('/auth').
HandleSignOut ==
    /\ Rendered.layout
    /\ authUser' \in {authUser, NoUser}
    /\ userRole' \in {userRole, NoRole}
    /\ location' = "/auth"
    /\ UNCHANGED << authLoading, roleLoading >>
    /\ UNCHANGED << day, budgetsTable, recsTable, tabVars, bpc, newBudget,
                    saving, createError, deactivated, budgetPageVars,
                    analyticsVars, purchaseVars, roleVars >>

\* SpecRoutes: the routes of the application over every session useAuth can
\* report.
NextRoutes ==
    \/ AuthChange
    \/ Visit
    \/ FollowRedirect
    \/ HandleSignOut

SpecRoutes == Init /\ [][NextRoutes]_vars

(* ------------------------------- roles --------------------------------- *)

\* has_role(user_uuid, check_role)
HasRole(table, u, role) == [user |-> u, role |-> role] \in table

\* The policies of user_roles: a system administrator sees and manages all
\* rows, any other user sees their own rows and manages none.
MayManageRoles(table, actor) == HasRole(table, actor, "system_admin")

VisibleRoles(table, actor) ==
    IF HasRole(table, actor, "system_admin") THEN table
    ELSE { row \in table : row.user = actor }

\* The roles fetchUsers can show: 'user' for a profile without a visible row,
\* otherwise the role of the row of that user that forEach visits last (the
\* query has no order).
ShownRoles(table, actor) ==
    { f \in [Users -> Roles] :
        \A u \in Users :
            LET mine == { row \in VisibleRoles(table, actor) : row.user = u }
            IN  IF mine = {} THEN f[u] = "user"
                ELSE [user |-> u, role |-> f[u]] \in mine }

\* The System admin page is opened by the signed-in administrator: its state
\* starts from the useState initial values and the effect calls fetchUsers.
RolesMount ==
    /\ upc \in {"unmounted", "done"}
    /\ rpc = "idle"
    /\ upc' = "fetch"
    /\ users' = {}
    /\ usersLoading' = TRUE
    /\ selectedUser' = NoUser
    /\ selectedRole' = NoRole
    /\ roleUpdateFailed' = FALSE
    /\ UNCHANGED << rolesTable, rpc >>
    /\ UNCHANGED << day, budgetsTable, recsTable, tabVars, bpc, newBudget,
                    saving, createError, deactivated, budgetPageVars,
                    analyticsVars, purchaseVars, routeVars >>

\* fetchUsers from the answers of its two queries on.
FetchUsersResponse ==
    /\ upc = "fetch"
    /\ \E ok \in BOOLEAN :
         IF ok
         THEN \E f \in ShownRoles(rolesTable, PageUser) :
                  users' = { [id |-> u, role |-> f[u]] : u \in Users }
         ELSE users' = users
    /\ usersLoading' = FALSE
    /\ upc' = "done"
    /\ UNCHANGED << rolesTable, rpc, selectedUser, selectedRole,
                    roleUpdateFailed >>
    /\ UNCHANGED << day, budgetsTable, recsTable, tabVars, bpc, newBudget,
                    saving, createError, deactivated, budgetPageVars,
                    analyticsVars, purchaseVars, routeVars >>

\* The administrator picks one of the listed users and a role.
SelectUserAndRole ==
    /\ rpc = "idle"
    /\ ~usersLoading
    /\ \E row \in users, role \in Roles :
         /\ selectedUser' = row.id
         /\ selectedRole' = role
    /\ UNCHANGED << rolesTable, rpc, users, usersLoading, upc,
                    roleUpdateFailed >>
    /\ UNCHANGED << day, budgetsTable, recsTable, tabVars, bpc, newBudget,
                    saving, createError, deactivated, budgetPageVars,
                    analyticsVars, purchaseVars, routeVars >>

\* from('user_roles').delete().eq('user_id', u)
DeleteRoles(table, u) == { row \in table : row.user # u }

\* updateUserRole up to its insert: the result of the delete is not looked
\* at, so the insert is sent whether it succeeded or not.
UpdateRoleDelete ==
    /\ rpc = "idle"
    /\ selectedUser # NoUser
    /\ selectedRole # NoRole
    /\ \E ok \in BOOLEAN :
         rolesTable' = IF ok /\ MayManageRoles(rolesTable, PageUser)
                       THEN DeleteRoles(rolesTable, selectedUser)
                       ELSE rolesTable
    /\ rpc' = "insert"
    /\ roleUpdateFailed' = FALSE
    /\ UNCHANGED << selectedUser, selectedRole, users, usersLoading, upc >>
    /\ UNCHANGED << day, budgetsTable, recsTable, tabVars, bpc, newBudget,
                    saving, createError, deactivated, budgetPageVars,
                    analyticsVars, purchaseVars, routeVars >>

\* updateUserRole from the answer of its insert on: the store rejects the
\* row on a storage failure, when the policy does not let the caller manage
\* roles, and on UNIQUE (user_id, role).
UpdateRoleInsert ==
    /\ rpc = "insert"
    /\ \E ok \in BOOLEAN :
         LET row == [user |-> selectedUser, role |-> selectedRole]
             accepted == /\ ok
                         /\ MayManageRoles(rolesTable, PageUser)
                         /\ row \notin rolesTable
         IN  IF accepted
             THEN /\ rolesTable' = rolesTable \cup {row}
                  /\ upc' = "fetch"
                  /\ selectedUser' = NoUser
                  /\ selectedRole' = NoRole
                  /\ roleUpdateFailed' = FALSE
             ELSE /\ roleUpdateFailed' = TRUE
                  /\ UNCHANGED << rolesTable, upc, selectedUser, selectedRole >>
    /\ rpc' = "idle"
    /\ UNCHANGED << users, usersLoading >>
    /\ UNCHANGED << day, budgetsTable, recsTable, tabVars, bpc, newBudget,
                    saving, createError, deactivated, budgetPageVars,
                    analyticsVars, purchaseVars, routeVars >>

\* SpecRoles: the System admin page of one administrator listing the users
\* and changing roles.
NextRoles ==
    \/ RolesMount
    \/ FetchUsersResponse
    \/ SelectUserAndRole
    \/ UpdateRoleDelete
    \/ UpdateRoleInsert

SpecRoles == Init /\ [][NextRoles]_vars

(* ------------------------------ progress ------------------------------- *)

\* The pages whose loads and saves are followed to their end, by the path
\* the tab is opened on.
LivePaths == {"/", "/budget", "/analytics"}

\* The tab is opened on one of the pages.
InitLive ==
    /\ InitData
    /\ location \in LivePaths

\* The answers followed here: an empty one and those of one row.
Short(answers) == { rows \in answers : Len(rows) <= 1 }

\* The inputs of the Budget page's form followed here: an amount the store
\* accepts and one it rejects.
LiveInputs == { input \in BudgetInputs : input[1] = "daily" }

\* The Menu page's steps, taken while the tab shows the Menu page.
MenuSteps ==
    /\ location = "/"
    /\ \/ Mount("t1")
       \/ FetchItems("t1")
       \/ FetchRec("t1")
       \/ GenBudgetAnyTable("t1")
       \/ GenInsert("t1")
       \/ PurchaseStart("t1")
       \/ PurchaseResponse("t1")

\* The Budget page's steps, taken while the tab shows the Budget page.
BudgetSteps ==
    /\ location = "/budget"
    /\ \/ BudgetPageMount
       \/ FetchBudgetsAnswer(Short(BudgetLists))
       \/ FetchTransactionsAnswer(Short(TxAnswers(day)))
       \/ CreateDeactivateBy({PageUser}, LiveInputs)
       \/ CreateInsert

\* The Analytics page's steps, taken while the tab shows the Analytics page.
AnalyticsSteps ==
    /\ location = "/analytics"
    /\ \/ AnalyticsMount
       \/ AnalyticsAnswer(Short(AnalyticsAnswers(day)))

NextLive ==
    \/ MenuSteps
    \/ BudgetSteps
    \/ AnalyticsSteps

\* SpecLive: every request that was sent is answered, by a result or by an
\* error.
SpecLive ==
    /\ InitLive
    /\ [][NextLive]_vars
    /\ WF_vars(location = "/" /\ FetchItems("t1"))
    /\ WF_vars(location = "/" /\ FetchRec("t1"))
    /\ WF_vars(location = "/" /\ GenBudgetAnyTable("t1"))
    /\ WF_vars(location = "/" /\ GenInsert("t1"))
    /\ WF_vars(location = "/" /\ PurchaseResponse("t1"))
    /\ WF_vars(location = "/budget" /\ FetchBudgetsAnswer(Short(BudgetLists)))
    /\ WF_vars(location = "/budget"
               /\ FetchTransactionsAnswer(Short(TxAnswers(day))))
    /\ WF_vars(location = "/budget" /\ CreateInsert)
    /\ WF_vars(location = "/analytics"
               /\ AnalyticsAnswer(Short(AnalyticsAnswers(day))))

(* ------------------------------- claims -------------------------------- *)

\* The rows of a meal_recommendations table for one user and date.
RowsFor(table, u, d) == { r \in table : r.user = u /\ r.date = d }

\* C1 (Spec): idempotence per day.  Once the store holds a recommendation
\* for (user, date), no step changes or removes it; a call whose read of
\* that (user, date) succeeds ends there, without generating, with the
\* stored menu_item_ids and total_estimated_cost as its recommendation,
\* whatever the menu items it fetched; and the call that creates the record
\* shows what it stored.
C1_IdempotentPerDay ==
    [][ /\ \A r \in recsTable :
             RowsFor(recsTable', r.user, r.date) = RowsFor(recsTable, r.user, r.date)
        /\ \A t \in Tabs :
             /\ ( /\ pc[t] = "fetchRec"
                  /\ pc'[t] # "fetchRec"
                  /\ ~fetchFailed'[t]
                  /\ RowsFor(recsTable, user[t], reqDate[t]) # {} )
                => /\ pc'[t] = "done"
                   /\ recsTable' = recsTable
                   /\ \E r \in RowsFor(recsTable, user[t], reqDate[t]) :
                        /\ recommendation'[t].ids = r.ids
                        /\ recommendation'[t].cost = r.cost
             /\ ( pc[t] = "genInsert" /\ recommendation'[t] # recommendation[t] )
                => \E r \in RowsFor(recsTable', user[t], pending[t].date) :
                        /\ recommendation'[t].ids = r.ids
                        /\ recommendation'[t].cost = r.cost
      ]_vars

\* C1 witness: a finished call shows a recommendation holding an item that
\* is not on the menu that call fetched: it returned the stored record.
C1_Witness ==
    \E t \in Tabs :
        /\ pc[t] = "done"
        /\ recommendation[t] # NoRec
        /\ \E k \in 1..Len(recommendation[t].ids) :
             \A i \in 1..Len(menuItems[t]) :
                 menuItems[t][i].id # recommendation[t].ids[k]

\* C2 (Spec): in every reachable state the store holds at most one
\* recommendation per (user, date).
C2_AtMostOnePerUserDate ==
    \A r1 \in recsTable, r2 \in recsTable :
        (r1.user = r2.user /\ r1.date = r2.date) => r1 = r2

\* C2 witness: two calls raced and the insert of one was rejected.
C2_Witness ==
    \E t \in Tabs : insertError[t] = "conflict" /\ recsTable # {}

\* C3 (Spec), as claimed: a call whose insert was rejected with a uniqueness
\* conflict ends with the stored recommendation as its result.
C3_ConflictReturnsStored ==
    \A t \in Tabs :
        (pc[t] = "done" /\ insertError[t] = "conflict")
        => /\ recommendation[t] # NoRec
           /\ \E r \in recsTable :
                r.user = user[t] /\ AsRecommendation(r) = recommendation[t]

\* Whether none of u's budgets is active.
NoActiveBudget(u) ==
    \A i \in 1..Len(budgetsTable) :
        budgetsTable[i].user = u => ~budgetsTable[i].active

\* C4 (SpecBudgets): when none of the user's budgets is active, the budget
\* page resolves no active budget, and generateRecommendation returns at its
\* budgets query: nothing is put in flight, stored or shown.
C4_NoBudgetNoRecommendation ==
    [][ \A t \in Tabs :
          ( pc[t] = "genBudget" /\ NoActiveBudget(user[t]) )
          => /\ GetActiveBudget(FetchBudgets(budgetsTable, user[t])) = NoBudget
             /\ pc'[t] \in {"genBudget", "done"}
             /\ pending'[t] = NoPending
             /\ recsTable' = recsTable
             /\ recommendation'[t] = NoRec
      ]_vars

\* C4 witness: a call has ended without a recommendation for a user who has
\* budgets, none of them active, while the menu has items.
C4_Witness ==
    \E t \in Tabs :
        /\ pc[t] = "done"
        /\ user[t] # NoUser
        /\ ~fetchFailed[t]
        /\ insertError[t] = "none"
        /\ Len(menuItems[t]) > 0
        /\ recommendation[t] = NoRec
        /\ recsTable = {}
        /\ NoActiveBudget(user[t])
        /\ \E i \in 1..Len(budgetsTable) : budgetsTable[i].user = user[t]

\* The most recently created active budget of u: the last active row of u in
\* creation order.
NewestActive(u) ==
    LET idx == { i \in 1..Len(budgetsTable) :
                   budgetsTable[i].user = u /\ budgetsTable[i].active }
    IN  budgetsTable[CHOOSE i \in idx : \A j \in idx : j <= i]

\* Whether more than one budget of u is active.
SeveralActive(u) ==
    Cardinality({ i \in 1..Len(budgetsTable) :
                    budgetsTable[i].user = u /\ budgetsTable[i].active }) > 1

\* C5 (SpecBudgets), as claimed: when more than one budget of a user is
\* active, the budget is resolved from the most recently created active one,
\* on the recommendation path and on the budget-alert path.
C5_NewestActiveOnBothPaths ==
    \A u \in Users :
        SeveralActive(u)
        => /\ MaybeSingleBudget(ActiveBudgetRows(budgetsTable, u)) = NewestActive(u)
           /\ GetActiveBudget(FetchBudgets(budgetsTable, u)) = NewestActive(u)

RecommendationLimit(u) ==
    LET b == MaybeSingleBudget(ActiveBudgetRows(budgetsTable, u))
    IN  IF b = NoBudget THEN NoLimit ELSE DailyBudget(b)

\* C7 (SpecBudgets), as claimed: for every set of budgets of a user, the
\* daily limit of the recommendation path equals the daily limit of the
\* alert path, and they are absent together.
C7_SameLimitOnBothPaths ==
    \A u \in Users :
        RecommendationLimit(u) = GetBudgetProgressLimit(FetchBudgets(budgetsTable, u))

\* Whether the item at position i of tab t's menu is among the ids in flight.
Selected(t, i) ==
    \E k \in 1..Len(pending[t].ids) : pending[t].ids[k] = menuItems[t][i].id

\* C8 (SpecBudgets), as claimed: every selected item has price <= daily
\* limit, and an item priced exactly at the daily limit is eligible: it is
\* not passed over for an item listed after it.
C8_AtLimitEligible ==
    \A t \in Tabs :
        pc[t] = "genInsert"
        => \A i \in 1..Len(menuItems[t]) :
             LET price == menuItems[t][i].price
                 den == IF budget[t].type = "daily" THEN 1 ELSE 7
             IN  /\ Selected(t, i) => price * den <= budget[t].amount
                 /\ ( /\ price * den = budget[t].amount
                      /\ \E j \in (i + 1)..Len(menuItems[t]) : Selected(t, j) )
                    => Selected(t, i)

\* Whether u has exactly one active budget and no item of the menu costs at
\* most its daily limit.
NothingAffordable(u, items) ==
    /\ ~NoActiveBudget(u)
    /\ ~SeveralActive(u)
    /\ \A i \in 1..Len(items) :
         LET b == NewestActive(u)
         IN  items[i].price * (IF b.type = "daily" THEN 1 ELSE 7) > b.amount

\* C9 (SpecBudgets): with an active budget and no item priced within its
\* daily limit, generateRecommendation returns after its filter: nothing is
\* put in flight, stored or shown.
C9_NothingAffordableNoRecommendation ==
    [][ \A t \in Tabs :
          ( pc[t] = "genBudget" /\ NothingAffordable(user[t], menuItems[t]) )
          => /\ pc'[t] \in {"genBudget", "done"}
             /\ pending'[t] = NoPending
             /\ recsTable' = recsTable
             /\ recommendation'[t] = NoRec
      ]_vars

\* C9 witness: a call has ended without a recommendation for a user whose
\* one active budget no item of the fetched menu fits.
C9_Witness ==
    \E t \in Tabs :
        /\ pc[t] = "done"
        /\ user[t] # NoUser
        /\ ~fetchFailed[t]
        /\ insertError[t] = "none"
        /\ Len(menuItems[t]) > 0
        /\ recommendation[t] = NoRec
        /\ recsTable = {}
        /\ NothingAffordable(user[t], menuItems[t])

\* C10 (SpecBudgets): the ids put in flight are the ids of the first
\* min(3, n) items of the affordable set, in listing order, n being the
\* number of affordable items.
C10_FirstThreeAffordable ==
    \A t \in Tabs :
        pc[t] = "genInsert"
        => LET affordable == Affordable(menuItems[t], dailyBudget[t])
               n == Len(affordable)
               m == IF n < 3 THEN n ELSE 3
           IN  /\ Len(pending[t].ids) = m
               /\ \A k \in 1..m : pending[t].ids[k] = affordable[k].id

\* C10 witness: five items are affordable and three ids are in flight.
C10_Witness ==
    \E t \in Tabs :
        /\ pc[t] = "genInsert"
        /\ Len(Affordable(menuItems[t], dailyBudget[t])) = 5
        /\ Len(pending[t].ids) = 3

\* The sum of the menu prices of a set of item ids.
RECURSIVE SumPrices(_)
SumPrices(ids) ==
    IF ids = {} THEN 0
    ELSE LET i == CHOOSE j \in ids : TRUE
         IN  ItemPrice[i] + SumPrices(ids \ {i})

\* C11 (SpecBudgets): the total_estimated_cost put in flight, stored and
\* shown is the sum of the prices of exactly the selected items, to the
\* cent; affordable items that were not selected add nothing to it.
C11_CostIsSumOfSelected ==
    /\ \A t \in Tabs :
         pc[t] = "genInsert"
         => pending[t].cost =
               SumPrices({ menuItems[t][i].id : i \in { j \in 1..Len(menuItems[t]) : Selected(t, j) } })
    /\ \A r \in recsTable :
         r.cost = SumPrices({ r.ids[k] : k \in 1..Len(r.ids) })
    /\ \A t \in Tabs :
         recommendation[t].cost =
            SumPrices({ recommendation[t].ids[k] : k \in 1..Len(recommendation[t].ids) })

\* C11 witness: a recommendation of three items is in flight whose cost is
\* less than the prices of all affordable items together.
C11_Witness ==
    \E t \in Tabs :
        /\ pc[t] = "genInsert"
        /\ Len(pending[t].ids) = RecommendCount
        /\ pending[t].cost > 0
        /\ pending[t].cost < TotalCost(Affordable(menuItems[t], dailyBudget[t]))

\* C12 (Spec): a stored recommendation only goes from absent to created.
\* Every step keeps each stored row as it is, with its menu_item_ids,
\* total_estimated_cost and reason, as the only row of its (user, date); a
\* step adds a row only for a (user, date) that had none.
C12_StoredNeverChanges ==
    [][ /\ \A r \in recsTable :
             /\ r \in recsTable'
             /\ \A r2 \in recsTable' :
                  (r2.user = r.user /\ r2.date = r.date)
                  => /\ r2.ids = r.ids
                     /\ r2.cost = r.cost
                     /\ r2.reason = r.reason
        /\ \A r2 \in recsTable' \ recsTable :
             \A r \in recsTable : ~(r.user = r2.user /\ r.date = r2.date)
      ]_vars

\* C12 witness: a recommendation is stored and shown in one tab while
\* another tab, after the budget and the menu changed, has an insert in
\* flight for the same (user, date) with other items and another reason.
C12_Witness ==
    \E t1 \in Tabs, t2 \in Tabs, r \in recsTable :
        /\ pc[t1] = "done"
        /\ recommendation[t1] = AsRecommendation(r)
        /\ pc[t2] = "genInsert"
        /\ pending[t2].user = r.user
        /\ pending[t2].date = r.date
        /\ pending[t2].ids # r.ids
        /\ pending[t2].reason # r.reason

\* The sum of the amounts (cents) of the rows at the positions idx.
RECURSIVE SumAt(_, _)
SumAt(rows, idx) ==
    IF idx = {} THEN 0
    ELSE LET i == CHOOSE j \in idx : TRUE
         IN  rows[i].amount + SumAt(rows, idx \ {i})

\* C13 (SpecBudgetPage): spending.today is the sum of the amounts of exactly
\* the returned transactions whose timestamp has the reference date as its
\* date part, to the cent; the others add nothing, and it is 0 when there
\* are none.
C13_TodayIsSumOfTodaysRows ==
    spending.today.cents =
        SumAt(transactions, { i \in 1..Len(transactions) : transactions[i].date[1] = today })

\* C13 witness: the summary was computed from a transaction of the reference
\* date and one of another date.
C13_Witness ==
    /\ fpc = "done"
    /\ ~budgetFetchFailed
    /\ \E i \in 1..Len(transactions), j \in 1..Len(transactions) :
         /\ transactions[i].date[1] = today
         /\ transactions[j].date[1] # today
    /\ spending.today.cents > 0

\* C14 (SpecBudgetPage): spending.thisWeek is the sum of the amounts of all
\* returned transactions, to the cent, and spending.dailyAverage is
\* thisWeek / 7, whatever the number of dates that have transactions.
C14_AverageOverSevenDays ==
    /\ spending.thisWeek.cents = SumAt(transactions, 1..Len(transactions))
    /\ 7 * spending.dailyAverage.num = spending.thisWeek.cents * spending.dailyAverage.den

\* C14 witness: the summary was computed from two transactions of one date.
C14_Witness ==
    /\ fpc = "done"
    /\ ~budgetFetchFailed
    /\ Len(transactions) = 2
    /\ transactions[1].date[1] = transactions[2].date[1]
    /\ spending.thisWeek.cents > 0
    /\ spending.dailyAverage.den = 7

\* Whether the page's state holds no active budget.
NoActiveInState == \A i \in 1..Len(budgets) : ~budgets[i].active

C18_ProgressCapped ==
    LET r == GetBudgetProgress(budgets, spending)
        b == GetActiveBudget(budgets)
        den == IF b.type = "daily" THEN 1 ELSE 7
        spend == spending.today.cents
    IN  (b # NoBudget /\ b.amount > 0)
        => /\ r.progress.den > 0
           /\ 0 <= r.progress.num
           /\ r.progress.num <= 100 * r.progress.den
           /\ IF spend * den >= b.amount
              THEN r.progress.num = 100 * r.progress.den
              ELSE r.progress.num * b.amount = spend * den * 100 * r.progress.den

\* C18 witness: today's spending is above the daily limit of the active
\* budget, and the progress is 100.
C18_Witness ==
    LET b == GetActiveBudget(budgets)
    IN  /\ fpc = "done"
        /\ b # NoBudget
        /\ spending.today.cents * (IF b.type = "daily" THEN 1 ELSE 7) > b.amount
        /\ GetBudgetProgress(budgets, spending).progress = [num |-> 100, den |-> 1]

\* C19 (SpecBudgetPage), as claimed: with an active budget, isOverBudget is
\* true exactly when today's spending is above the daily limit: false when
\* the spending equals the limit, true from one cent above it.
C19_OverBudgetStrict ==
    LET r == GetBudgetProgress(budgets, spending)
        b == GetActiveBudget(budgets)
        den == IF b.type = "daily" THEN 1 ELSE 7
    IN  b # NoBudget
        => (r.isOverBudget <=> spending.today.cents * den > b.amount)

\* The categories observed in the Analytics page's transactions, a
\* transaction without a resolved category counting as "Unknown".
ObservedCategory(i) ==
    IF analyticsTransactions[i].category = NoCategory THEN "Unknown"
    ELSE analyticsTransactions[i].category

\* The positions of the transactions observed with category c.
PositionsOf(c) == { i \in 1..Len(analyticsTransactions) : ObservedCategory(i) = c }

\* C15 (SpecAnalytics): categorySpending holds exactly one entry for each
\* category observed in the transactions; a transaction whose menu item is
\* unresolved is counted under "Unknown", not dropped; an entry's amount is
\* the sum of the amounts of its category's transactions, to the cent, and
\* its count is their number.
C15_OneEntryPerCategory ==
    /\ \A i \in 1..Len(analyticsTransactions) :
         \E k \in 1..Len(categorySpending) :
             categorySpending[k].category = ObservedCategory(i)
    /\ \A k \in 1..Len(categorySpending) :
         LET e == categorySpending[k]
         IN  /\ PositionsOf(e.category) # {}
             /\ e.count = Cardinality(PositionsOf(e.category))
             /\ e.amount = SumAt(analyticsTransactions, PositionsOf(e.category))
             /\ \A j \in 1..Len(categorySpending) :
                  categorySpending[j].category = e.category => j = k

\* C15 witness: the figures were derived from a transaction without a
\* resolved menu item and one of a category, and "Unknown" has an entry.
C15_Witness ==
    /\ apc = "done"
    /\ ~analyticsFailed
    /\ \E i \in 1..Len(analyticsTransactions), j \in 1..Len(analyticsTransactions) :
         /\ analyticsTransactions[i].category = NoCategory
         /\ analyticsTransactions[j].category # NoCategory
    /\ \E k \in 1..Len(categorySpending) :
         categorySpending[k].category = "Unknown" /\ categorySpending[k].count = 1

\* The position of the first transaction observed with category c.
FirstPositionOf(c) ==
    CHOOSE i \in PositionsOf(c) : \A j \in PositionsOf(c) : i <= j

\* C16 (SpecAnalytics): categorySpending is ordered by amount, largest
\* first, and entries of equal amount are in the order in which their
\* categories first occur in the transactions.
C16_OrderedByAmount ==
    \A i \in 1..Len(categorySpending), j \in 1..Len(categorySpending) :
        i < j
        => /\ categorySpending[i].amount >= categorySpending[j].amount
           /\ categorySpending[i].amount = categorySpending[j].amount
              => FirstPositionOf(categorySpending[i].category)
                    < FirstPositionOf(categorySpending[j].category)

\* C16 witness: two categories have the same amount.
C16_Witness ==
    /\ apc = "done"
    /\ Len(categorySpending) = 2
    /\ categorySpending[1].amount = categorySpending[2].amount

\* C21 (Spec), as claimed: a call of generateRecommendation whose insert
\* failed in the store, for another reason than the uniqueness conflict,
\* ends as a failure the page can tell from the normal absent outcome: the
\* failure path of fetchMenuData has run.
C21_StorageFailureReachesCaller ==
    \A t \in Tabs :
        (pc[t] = "done" /\ insertError[t] = "failure") => fetchFailed[t]

\* C23 (SpecBudgets), as claimed: in every reachable state a user has at
\* most one active budget of each type.
C23_AtMostOneActivePerType ==
    \A i \in 1..Len(budgetsTable), j \in 1..Len(budgetsTable) :
        ( /\ budgetsTable[i].user = budgetsTable[j].user
          /\ budgetsTable[i].type = budgetsTable[j].type
          /\ budgetsTable[i].active
          /\ budgetsTable[j].active )
        => i = j

\* C22 (SpecBudgets), as claimed: when handleCreateBudget's insert of a budget
\* of type T has succeeded, every budget the user had of type T is still
\* present and inactive, the new budget is active, and no budget of another
\* type or of another user, and no amount, has changed since the insert was
\* sent.
C22_CreateLeavesOthersInactive ==
    [][ ( /\ bpc = "insert"
          /\ bpc' = "idle"
          /\ ~createError' )
        => /\ Len(budgetsTable') = Len(budgetsTable) + 1
           /\ budgetsTable'[Len(budgetsTable')] = newBudget
           /\ newBudget.active
           /\ \A i \in 1..Len(budgetsTable) :
                 /\ budgetsTable'[i] = budgetsTable[i]
                 /\ ( /\ budgetsTable[i].user = newBudget.user
                      /\ budgetsTable[i].type = newBudget.type )
                    => ~budgetsTable'[i].active ]_vars

\* The budgets of one user and type that are active in a table.
ActiveOf(table, u, type) ==
    { i \in 1..Len(table) :
        table[i].user = u /\ table[i].type = type /\ table[i].active }

\* C28 (SpecBudgets): handleCreateBudget is not atomic.  Its first request
\* goes on to the insert whether the deactivating update succeeded or not:
\* when it succeeded the user has no active budget of the type, when it failed
\* the table is as it was.  A failing insert then leaves the table exactly as
\* the update left it (nothing is re-activated) and ends in the catch with
\* saving cleared.
C28_CreateNotAtomic ==
    [][ /\ ( bpc = "idle" /\ bpc' = "insert" )
          => /\ saving'
             /\ deactivated'
                => ActiveOf(budgetsTable', newBudget'.user, newBudget'.type) = {}
             /\ ~deactivated' => budgetsTable' = budgetsTable
        /\ ( bpc = "insert" /\ bpc' = "idle" /\ createError' )
          => /\ budgetsTable' = budgetsTable
             /\ ~saving' ]_vars

\* C28 witness: a create whose update succeeded and whose insert failed has
\* ended, and user u1 has a daily budget but no active one.
C28_Witness ==
    /\ bpc = "idle"
    /\ createError
    /\ deactivated
    /\ \E i \in 1..Len(budgetsTable) :
         budgetsTable[i].user = "u1" /\ budgetsTable[i].type = "daily"
    /\ ActiveOf(budgetsTable, "u1", "daily") = {}

\* a <= b for two sums of doubles
SumLeq(a, b) ==
    \/ a.cents < b.cents
    \/ a.cents = b.cents /\ a.dev <= b.dev

\* C30 (SpecBudgetPage): in every summary the Budget page holds, the spending
\* of today is at most the spending of the week, and the daily average is at
\* most the spending of the week.
C30_TodayAndAverageWithinWeek ==
    /\ SumLeq(spending.today, spending.thisWeek)
    /\ spending.dailyAverage.num
         <= spending.thisWeek.cents * spending.dailyAverage.den

\* C30 witness: a summary was computed over a purchase of today and a
\* purchase of another day, so today is strictly below the week.
C30_Witness ==
    /\ fpc = "done"
    /\ ~budgetFetchFailed
    /\ spending.today.cents > 0
    /\ spending.today.cents < spending.thisWeek.cents
    /\ spending.dailyAverage.num > 0

\* C24 (SpecPurchase): transactions are append-only.  Every step leaves the
\* rows already stored as they are; the table grows only by handlePurchase's
\* answer, by exactly one row, for the tab's signed-in user, one of the
\* displayed items, quantity 1 and the item's price as amount; a purchase
\* that failed adds none.
C24_TransactionsAppendOnly ==
    [][ /\ Len(txTable') >= Len(txTable)
        /\ \A i \in 1..Len(txTable) : txTable'[i] = txTable[i]
        /\ txTable' # txTable
           => /\ Len(txTable') = Len(txTable) + 1
              /\ ~purchaseFailed'["t1"]
              /\ InFlight(purchasePending') = InFlight(purchasePending) - 1
              /\ LET row == txTable'[Len(txTable')]
                 IN  /\ row.user = user["t1"]
                     /\ row.user # NoUser
                     /\ row.quantity = 1
                     /\ row.item \in 1..Len(ItemPrice)
                     /\ row.amount = ItemPrice[row.item] * row.quantity
        /\ ( InFlight(purchasePending') < InFlight(purchasePending)
             /\ purchaseFailed'["t1"] )
           => txTable' = txTable ]_vars

\* C24 witness: one purchase was recorded and a later one has failed.
C24_Witness ==
    /\ Len(txTable) = 1
    /\ txTable[1].item > 1
    /\ purchaseFailed["t1"]
    /\ purchasePending["t1"] = << >>

\* The admin routes: path, required role, page.
AdminRoutes ==
    { << "/system-admin", "system_admin", "SystemAdminDashboard" >>,
      << "/cafeteria-admin", "cafeteria_admin", "CafeteriaAdminDashboard" >> }

\* C25 (SpecRoutes): an admin route shows its page exactly when loading and
\* roleLoading are both false, a user is signed in and the role is the
\* required role or system_admin; while either flag is set it shows the
\* spinner; a signed-out visitor is sent to /auth and a signed-in user with
\* any other role, or none, to /.  So system_admin reaches both admin pages
\* and cafeteria_admin only /cafeteria-admin.
C25_AdminRouteGate ==
    \A r \in AdminRoutes :
        LET shown == RouteElement(r[1])
            settled == ~authLoading /\ ~roleLoading
            admitted == userRole \in {r[2], "system_admin"}
        IN  /\ shown.kind = r[3]
               <=> (settled /\ authUser # NoUser /\ admitted)
            /\ ~settled => shown = Spinner
            /\ (settled /\ authUser = NoUser) => shown = NavigateTo("/auth")
            /\ (settled /\ authUser # NoUser /\ ~admitted)
               => shown = NavigateTo("/")
            /\ (settled /\ authUser # NoUser /\ userRole = "cafeteria_admin")
               => (shown.kind = r[3] <=> r[1] = "/cafeteria-admin")

\* C25 witness: a system administrator is shown the cafeteria admin page.
C25_Witness ==
    /\ location = "/cafeteria-admin"
    /\ userRole = "system_admin"
    /\ Rendered = InLayout("CafeteriaAdminDashboard")

\* C26 (SpecRoutes): whenever Layout is shown, it lists the entry of an admin
\* path if and only if the route of that path admits the session.
C26_NavMatchesRoutes ==
    Rendered.layout
    => \A r \in AdminRoutes :
           r[1] \in NavPaths <=> RouteElement(r[1]).kind = r[3]

\* C26 witness: a cafeteria administrator on the Menu page is shown the
\* entry of /cafeteria-admin and not that of /system-admin.
C26_Witness ==
    /\ location = "/"
    /\ Rendered.layout
    /\ userRole = "cafeteria_admin"
    /\ "/cafeteria-admin" \in NavPaths
    /\ "/system-admin" \notin NavPaths

\* The rows of one user in a user_roles table.
RolesOf(table, u) == { row \in table : row.user = u }

\* C27 (SpecRoles), as claimed: when updateUserRole has succeeded, the
\* selected user has exactly one row in user_roles, holding the selected
\* role, and the rows of every other user are as they were; when its insert
\* has failed after the delete went through, the selected user has no row.
C27_RoleReplaced ==
    [][ /\ ( rpc = "insert" /\ rpc' = "idle" /\ ~roleUpdateFailed' )
          => /\ RolesOf(rolesTable', selectedUser)
                  = { [user |-> selectedUser, role |-> selectedRole] }
             /\ \A u \in Users \ {selectedUser} :
                   RolesOf(rolesTable', u) = RolesOf(rolesTable, u)
        /\ ( rpc = "insert" /\ rpc' = "idle" /\ roleUpdateFailed' )
          => rolesTable' = rolesTable ]_vars

\* C29 (SpecLive): every load or save that has started clears its busy flag
\* in the end, whether its requests succeed or fail: loading of the Menu,
\* Budget and Analytics pages becomes false, saving becomes false, and
\* purchaseLoading becomes null.
C29_BusyFlagsCleared ==
    /\ (pc["t1"] # "unmounted" /\ loading["t1"]) ~> ~loading["t1"]
    /\ (purchaseLoading["t1"] # 0) ~> (purchaseLoading["t1"] = 0)
    /\ (fpc # "unmounted" /\ budgetLoading) ~> ~budgetLoading
    /\ saving ~> ~saving
    /\ (apc # "unmounted" /\ analyticsLoading) ~> ~analyticsLoading

\* C29 witness: a load of the Menu page has ended in its catch with loading
\* cleared.
C29_Witness ==
    /\ pc["t1"] = "done"
    /\ fetchFailed["t1"]
    /\ ~loading["t1"]

====
